---- MODULE Spec2Model ----
(***************************************************************************)
(* A model of balatro-wiki (src/balatro-wiki/src/main.rs): the cache file, *)
(* the staleness gate, the refresh pipeline (category collection, the      *)
(* concurrent item tasks, the merge) and the command dispatch of main.     *)
(*                                                                         *)
(* Strings are sequences of words, so that contains / starts-with / the    *)
(* lower-casing of a name are computed and not assumed.  Time is counted   *)
(* in ticks, TicksPerHour of them to the hour.                             *)
(***************************************************************************)
EXTENDS Integers, Sequences, FiniteSets, TLC

VARIABLES
    file,            \* the cache file ~/.cache/balatro-wiki/mods.json
    now,             \* the wall clock (Utc::now), in ticks
    pc,              \* the position of the run in main
    cmd,             \* cli.command
    db,              \* the ModDatabase the run holds
    catIdx,          \* position of the loop over categories (line 283)
    listing,         \* what the wiki answered for each category's listing
    all_mod_names,   \* line 280
    mod_categories,  \* line 281
    handles,         \* line 306, in the iteration order of all_mod_names
    task,            \* the spawned tasks: state and the wiki's answer
    hIdx,            \* position of the loop over handles (line 323)
    category_mods,   \* line 318
    fetches,         \* HTTP requests sent by this run
    writes,          \* writes of the cache file by this run
    served,          \* the snapshot the query was answered from
    failure,         \* the error main returned, if any
    gate,            \* what should_update answered, once asked
    startFile,       \* the cache file as the run found it
    arg,             \* the argument of the query or function being applied
    out              \* what the function being applied returned

vars == <<file, now, pc, cmd, db, catIdx, listing, all_mod_names,
          mod_categories, handles, task, hIdx, category_mods, fetches,
          writes, served, failure, gate, startFile, arg, out>>

-----------------------------------------------------------------------------
(* Bounds of the model *)

\* how many of the six configured categories the model processes
NumCats == 2

\* clock resolution: ticks per hour
TicksPerHour == 2

(* Program constants *)

\* line 94: age.num_hours() >= 24
UpdateAfterHours == 24

-----------------------------------------------------------------------------
(* Strings *)

Range(s) == {s[i] : i \in DOMAIN s}

\* str::contains for a marker that is one word
Contains(s, w) == \E i \in DOMAIN s : s[i] = w

LowerWord(w) ==
    CASE w = "Foo" -> "foo"
      [] w = "FOO" -> "foo"
      [] w = "Bar" -> "bar"
      [] w = "Old" -> "old"
      [] w = "Mod" -> "mod"
      [] w = "MOD" -> "mod"
      [] w = "Mods" -> "mods"
      [] w = "Joker" -> "joker"
      [] w = "Content" -> "content"
      [] w = "Fan" -> "fan"
      [] w = "Adds" -> "adds"
      [] w = "Pack" -> "pack"
      [] w = "JOKER" -> "joker"
      [] OTHER -> w

\* str::to_lowercase
ToLower(s) == [i \in DOMAIN s |-> LowerWord(s[i])]

FooMod == <<"Foo", "Mod">>
BarMod == <<"Bar", "Mod">>
OldMod == <<"Old", "Mod">>
CategoryMeta == <<"Category:", "Meta">>

\* the empty mapping (HashMap::new)
EmptyMap == [x \in {} |-> x]

\* HashMap::insert
MapInsert(m, k, v) == [x \in (DOMAIN m) \cup {k} |-> IF x = k THEN v ELSE m[x]]

-----------------------------------------------------------------------------
(* Time stamps *)

Garbage == [rfc3339 |-> FALSE, instant |-> 0]

\* DateTime::to_rfc3339
ToRfc3339(t) == [rfc3339 |-> TRUE, instant |-> t]

\* DateTime::parse_from_rfc3339
ParseRfc3339(s) == [ok |-> s.rfc3339, instant |-> s.instant]

\* Duration::num_hours: whole hours, rounded towards zero
NumHours(age) ==
    IF age >= 0 THEN age \div TicksPerHour ELSE -((-age) \div TicksPerHour)

-----------------------------------------------------------------------------
(* The catalog *)

WIKI_BASE_URL == "https://balatromods.miraheze.org"

AllCategories ==
    << <<"Content Mods", "Content%20Mods">>,
       <<"Joker Mods", "Joker%20Mods">>,
       <<"Quality of Life Mods", "Quality%20of%20Life%20Mods">>,
       <<"Crossover Mods", "Crossover%20Mods">>,
       <<"Technical Mods", "Technical%20Mods">>,
       <<"API Mods", "API%20Mods">> >>

\* line 270: the configured categories, the first NumCats of them
categories == SubSeq(AllCategories, 1, NumCats)

CategoryNames == {categories[i][1] : i \in DOMAIN categories}

\* line 211
WikiUrl(mod_name) == <<WIKI_BASE_URL, "/wiki/">> \o mod_name

ModInfo(name, url, category) ==
    [name |-> name, wiki_url |-> url, category |-> category]

\* ModDatabase::new
NewDatabase(t) ==
    [mods |-> EmptyMap, categories |-> EmptyMap, last_updated |-> ToRfc3339(t)]

-----------------------------------------------------------------------------
(* The cache file *)

FileAbsent == [exists |-> FALSE, valid |-> FALSE, content |-> NewDatabase(0)]
FileCorrupt == [exists |-> TRUE, valid |-> FALSE, content |-> NewDatabase(0)]
FileOf(d) == [exists |-> TRUE, valid |-> TRUE, content |-> d]

\* a load that falls back to an empty database when the file does not parse
load_or_default(f, t) ==
    IF f.exists /\ f.valid THEN [ok |-> TRUE, db |-> f.content]
                           ELSE [ok |-> TRUE, db |-> NewDatabase(t)]

\* ModDatabase::load_or_create
load_or_create(f, t) ==
    IF f.exists
    THEN IF f.valid THEN [ok |-> TRUE, db |-> f.content]
                    ELSE [ok |-> FALSE, db |-> NewDatabase(t)]
    ELSE [ok |-> TRUE, db |-> NewDatabase(t)]

\* a gate that lets a snapshot of exactly the threshold age pass as fresh
should_update_after(d, t) ==
    IF DOMAIN d.mods = {}
    THEN TRUE
    ELSE LET last_updated == ParseRfc3339(d.last_updated) IN
         IF last_updated.ok
         THEN NumHours(t - last_updated.instant) > UpdateAfterHours
         ELSE TRUE

\* a gate that asks for a refresh whatever the snapshot
should_update_always(d, t) == TRUE

\* a gate that looks at the age of the snapshot only
should_update_by_age(d, t) ==
    LET last_updated == ParseRfc3339(d.last_updated) IN
    IF last_updated.ok
    THEN NumHours(t - last_updated.instant) >= UpdateAfterHours
    ELSE TRUE

\* ModDatabase::should_update
should_update(d, t) ==
    IF DOMAIN d.mods = {}
    THEN TRUE
    ELSE LET last_updated == ParseRfc3339(d.last_updated) IN
         IF last_updated.ok
         THEN NumHours(t - last_updated.instant) >= UpdateAfterHours
         ELSE TRUE

\* ModDatabase::save
save(d) == FileOf(d)

-----------------------------------------------------------------------------
(* What the wiki can answer *)

\* reqwest: send() / text() fail (transport error, timeout), or a response
\* arrives; the status of a response is carried here and nowhere read
TransportError == "error"
Arrived == "response"

NotJson == [json |-> FALSE, members |-> FALSE, titles |-> <<>>]
NoMembers == [json |-> TRUE, members |-> FALSE, titles |-> <<>>]
Members(titles) == [json |-> TRUE, members |-> TRUE, titles |-> titles]

Listings == {<<FooMod>>, <<CategoryMeta, BarMod>>, <<FooMod, BarMod>>}

CategoryBodies == {NotJson, NoMembers} \cup {Members(l) : l \in Listings}

NoListing == [transport |-> "none", status |-> 0, body |-> NotJson]

\* the bodies that come with a non-success status: an error page, or JSON
ErrorBodies == {NotJson, Members(<<FooMod>>)}

CategoryResponses ==
    {[transport |-> TransportError, status |-> 0, body |-> NotJson]}
    \cup {[transport |-> Arrived, status |-> 200, body |-> b] :
              b \in CategoryBodies}
    \cup {[transport |-> Arrived, status |-> 500, body |-> b] :
              b \in ErrorBodies}

\* the text of h1.firstHeading of an item page; <<>> when the page has none
NoHeading == <<>>
Headings == {NoHeading, FooMod}

NoPage == [transport |-> "none", status |-> 0, heading |-> NoHeading]

PageResponses ==
    {[transport |-> TransportError, status |-> 0, heading |-> NoHeading]}
    \cup {[transport |-> Arrived, status |-> 200, heading |-> h] :
              h \in Headings}
    \cup {[transport |-> Arrived, status |-> 404, heading |-> NoHeading]}

-----------------------------------------------------------------------------
(* The scraper *)

\* lines 189-199: the titles kept from a listing, in listing order
RECURSIVE FilterTitles(_)
FilterTitles(titles) ==
    IF titles = <<>>
    THEN <<>>
    ELSE LET title == Head(titles) IN
         IF /\ ~Contains(title, "Category:")
            /\ ~Contains(title, "File:")
            /\ ~Contains(title, "Template:")
         THEN <<title>> \o FilterTitles(Tail(titles))
         ELSE FilterTitles(Tail(titles))

\* WikiScraper::scrape_category_page_with_verbosity
scrape_category_page(resp) ==
    IF resp.transport = TransportError
    THEN [ok |-> FALSE, mod_names |-> <<>>]
    ELSE IF ~resp.body.json
    THEN [ok |-> FALSE, mod_names |-> <<>>]
    ELSE IF ~resp.body.members
    THEN [ok |-> TRUE, mod_names |-> <<>>]
    ELSE [ok |-> TRUE, mod_names |-> FilterTitles(resp.body.titles)]

\* WikiScraper::scrape_mod_page
scrape_mod_page(mod_name, resp) ==
    IF resp.transport = TransportError
    THEN [ok |-> FALSE, info |-> ModInfo(<<>>, <<>>, "Unknown")]
    ELSE LET name == IF resp.heading = NoHeading THEN mod_name
                                                 ELSE resp.heading
         IN [ok |-> TRUE,
             info |-> ModInfo(name, WikiUrl(mod_name), "Unknown")]

\* lines 289-294: the names of one listing enter the work set, and each is
\* assigned the category being processed
RECURSIVE CollectNames(_, _, _)
CollectNames(acc, mod_names, category_name) ==
    IF mod_names = <<>>
    THEN acc
    ELSE CollectNames(
             [names |-> acc.names \cup {Head(mod_names)},
              cats |-> MapInsert(acc.cats, Head(mod_names), category_name)],
             Tail(mod_names), category_name)

\* a collection that gives up what it has when a listing fails
CollectCategoryOrReset(acc, result, category_name) ==
    IF result.ok THEN CollectNames(acc, result.mod_names, category_name)
                 ELSE [names |-> {}, cats |-> EmptyMap]

\* lines 288-298: one category's listing result
CollectCategoryResult(acc, result, category_name) ==
    IF result.ok THEN CollectNames(acc, result.mod_names, category_name)
                 ELSE acc

MergeResultByFetchedName(acc, mod_name, result, modcats) ==
    IF result.ok
    THEN IF mod_name \in DOMAIN modcats
         THEN LET category == modcats[mod_name]
                  mod_info == [result.info EXCEPT !.category = category]
              IN [mods |-> MapInsert(acc.mods, mod_info.name, mod_info),
                  cat_mods |->
                      IF category \in DOMAIN acc.cat_mods
                      THEN [acc.cat_mods EXCEPT
                                ![category] = Append(@, mod_name)]
                      ELSE acc.cat_mods]
         ELSE acc
    ELSE acc

\* lines 325-351: one awaited handle's result enters the snapshot
MergeResult(acc, mod_name, result, modcats) ==
    IF result.ok
    THEN IF mod_name \in DOMAIN modcats
         THEN LET category == modcats[mod_name]
                  mod_info == [result.info EXCEPT !.category = category]
              IN [mods |-> MapInsert(acc.mods, mod_info.name, mod_info),
                  cat_mods |->
                      IF category \in DOMAIN acc.cat_mods
                      THEN [acc.cat_mods EXCEPT
                                ![category] = Append(@, mod_info.name)]
                      ELSE acc.cat_mods]
         ELSE acc
    ELSE acc

OrdersWithRepeats(S) == [1..Cardinality(S) -> S]

\* the orders in which a HashSet can be iterated
Orders(S) ==
    {o \in [1..Cardinality(S) -> S] : \A i, j \in DOMAIN o : o[i] = o[j] => i = j}

-----------------------------------------------------------------------------
(* The commands *)

Commands == {"browse", "search", "info", "categories", "update"}

\* the names a user asks `info` about
InfoNames == {<<"foo", "mod">>, <<"Nonexistent", "Mod">>}

show_mod_info_same_case(d, name) ==
    \E k \in DOMAIN d.mods : d.mods[k].name = name

\* show_mod_info, lines 433-435: is there a mod of that name
show_mod_info(d, name) ==
    \E k \in DOMAIN d.mods : ToLower(d.mods[k].name) = ToLower(name)

-----------------------------------------------------------------------------
(* The state before a run *)

\* a snapshot an earlier refresh saved at time t
PriorDatabase(stamp) ==
    [mods |-> MapInsert(EmptyMap, OldMod,
                        ModInfo(OldMod, WikiUrl(OldMod), categories[1][1])),
     categories |-> [c \in CategoryNames |->
                        IF c = categories[1][1] THEN <<OldMod>> ELSE <<>>],
     last_updated |-> stamp]

\* a snapshot of a refresh that found nothing
EmptyDatabase(stamp) ==
    [mods |-> EmptyMap,
     categories |-> [c \in CategoryNames |-> <<>>],
     last_updated |-> stamp]

\* the clock at the start of a run
StartClock == (UpdateAfterHours + 1) * TicksPerHour

InitFiles ==
    {FileAbsent, FileCorrupt,
     FileOf(PriorDatabase(ToRfc3339(0))),
     FileOf(PriorDatabase(ToRfc3339(StartClock - TicksPerHour))),
     FileOf(PriorDatabase(Garbage)),
     FileOf(EmptyDatabase(ToRfc3339(StartClock - TicksPerHour)))}

NoDatabase == NewDatabase(0)

Init ==
    /\ file \in InitFiles
    /\ startFile = file
    /\ now = StartClock
    /\ pc = "start"
    /\ cmd = "none"
    /\ db = NoDatabase
    /\ catIdx = 0
    /\ listing = [c \in CategoryNames |-> NoListing]
    /\ all_mod_names = {}
    /\ mod_categories = EmptyMap
    /\ handles = <<>>
    /\ task = EmptyMap
    /\ hIdx = 0
    /\ category_mods = EmptyMap
    /\ fetches = 0
    /\ writes = 0
    /\ served = [done |-> FALSE, db |-> NoDatabase]
    /\ failure = "none"
    /\ gate = "unasked"
    /\ arg = <<>>
    /\ out = <<>>

-----------------------------------------------------------------------------
(* main and ModDatabase::ensure_fresh_with_verbosity *)

refreshVars == <<catIdx, listing, all_mod_names, mod_categories, handles,
                 task, hIdx, category_mods>>

\* a refresh that builds on the cached database
BeginRefreshFromCache ==
    /\ db' = [load_or_create(file, now).db EXCEPT
                  !.last_updated = ToRfc3339(now)]
    /\ catIdx' = 1
    /\ all_mod_names' = {}
    /\ mod_categories' = EmptyMap
    /\ pc' = "collect"

\* lines 267-281: update_database_with_verbosity starts from a new database
BeginRefresh ==
    /\ db' = NewDatabase(now)
    /\ catIdx' = 1
    /\ all_mod_names' = {}
    /\ mod_categories' = EmptyMap
    /\ pc' = "collect"

\* a main whose update command passes the staleness gate like the others
MainGated(c) ==
    /\ pc = "start"
    /\ cmd' = c
    /\ pc' = "ensure"
    /\ UNCHANGED <<db, catIdx, all_mod_names, mod_categories>>
    /\ UNCHANGED <<file, now, listing, handles, task, hIdx, category_mods,
                   fetches, writes, served, failure, gate, startFile, arg, out>>

\* lines 639-651: the command is parsed and main takes one of its two arms
Main(c) ==
    /\ pc = "start"
    /\ cmd' = c
    /\ IF c = "update"
       THEN /\ BeginRefresh
       ELSE /\ pc' = "ensure"
            /\ UNCHANGED <<db, catIdx, all_mod_names, mod_categories>>
    /\ UNCHANGED <<file, now, listing, handles, task, hIdx, category_mods,
                   fetches, writes, served, failure, gate, startFile, arg, out>>

\* lines 108-111: the cache is loaded and the staleness gate is asked
EnsureFresh ==
    /\ pc = "ensure"
    /\ LET loaded == load_or_create(file, now) IN
       IF ~loaded.ok
       THEN /\ failure' = "cache_corrupt"
            /\ pc' = "failed"
            /\ UNCHANGED <<db, gate, catIdx, all_mod_names, mod_categories>>
       ELSE IF should_update(loaded.db, now)
       THEN /\ BeginRefresh
            /\ gate' = "refresh"
            /\ UNCHANGED failure
       ELSE /\ db' = loaded.db
            /\ gate' = "fresh"
            /\ pc' = "serve"
            /\ UNCHANGED <<failure, catIdx, all_mod_names, mod_categories>>
    /\ UNCHANGED <<file, now, cmd, listing, handles, task, hIdx,
                   category_mods, fetches, writes, served, startFile, arg, out>>

-----------------------------------------------------------------------------
(* WikiScraper::update_database_with_verbosity *)

\* a loop over the categories that returns the error of a failed listing
CollectCategoryOrFail(resp) ==
    /\ pc = "collect"
    /\ LET category_name == categories[catIdx][1]
           result == scrape_category_page(resp)
           acc == CollectCategoryResult(
                      [names |-> all_mod_names, cats |-> mod_categories],
                      result, category_name)
       IN /\ listing' = [listing EXCEPT ![category_name] = resp]
          /\ all_mod_names' = acc.names
          /\ mod_categories' = acc.cats
          /\ pc' = IF ~result.ok THEN "failed"
                   ELSE IF catIdx = Len(categories) THEN "spawn" ELSE "collect"
          /\ failure' = IF result.ok THEN failure ELSE "refresh"
    /\ fetches' = fetches + 1
    /\ catIdx' = catIdx + 1
    /\ UNCHANGED <<file, now, cmd, db, handles, task, hIdx, category_mods,
                   served, gate, writes, startFile, arg, out>>

\* a loop over the categories that is left after its first turn
CollectCategoryThenSpawn(resp) ==
    /\ pc = "collect"
    /\ LET category_name == categories[catIdx][1]
           acc == CollectCategoryResult(
                      [names |-> all_mod_names, cats |-> mod_categories],
                      scrape_category_page(resp), category_name)
       IN /\ listing' = [listing EXCEPT ![category_name] = resp]
          /\ all_mod_names' = acc.names
          /\ mod_categories' = acc.cats
    /\ fetches' = fetches + 1
    /\ catIdx' = catIdx + 1
    /\ pc' = "spawn"
    /\ UNCHANGED <<file, now, cmd, db, handles, task, hIdx, category_mods,
                   served, failure, gate, writes, startFile, arg, out>>

\* lines 283-299: one turn of the loop over the categories
CollectCategory(resp) ==
    /\ pc = "collect"
    /\ LET category_name == categories[catIdx][1]
           acc == CollectCategoryResult(
                      [names |-> all_mod_names, cats |-> mod_categories],
                      scrape_category_page(resp), category_name)
       IN /\ listing' = [listing EXCEPT ![category_name] = resp]
          /\ all_mod_names' = acc.names
          /\ mod_categories' = acc.cats
    /\ fetches' = fetches + 1
    /\ catIdx' = catIdx + 1
    /\ pc' = IF catIdx = Len(categories) THEN "spawn" ELSE "collect"
    /\ UNCHANGED <<file, now, cmd, db, handles, task, hIdx, category_mods,
                   served, failure, gate, writes, startFile, arg, out>>

\* lines 305-321: a task is spawned for every name of the work set, in the
\* set's iteration order, and the index is prepared with every category
SpawnTasks(order) ==
    /\ pc = "spawn"
    /\ handles' = order
    /\ task' = [n \in all_mod_names |-> [st |-> "running", resp |-> NoPage]]
    /\ category_mods' = [c \in CategoryNames |-> <<>>]
    /\ hIdx' = 1
    /\ pc' = "await"
    /\ UNCHANGED <<file, now, cmd, db, catIdx, listing, all_mod_names,
                   mod_categories, fetches, writes, served, failure,
                   gate, startFile, arg, out>>

\* lines 310-313: a task fetches and parses its page and ends
TaskEnds(n, resp) ==
    /\ n \in DOMAIN task
    /\ task[n].st = "running"
    /\ task' = [task EXCEPT ![n] = [st |-> "done", resp |-> resp]]
    /\ fetches' = fetches + 1
    /\ UNCHANGED <<file, now, pc, cmd, db, catIdx, listing, all_mod_names,
                   mod_categories, handles, hIdx, category_mods, writes,
                   served, failure, gate, startFile, arg>>

TaskRun(n, resp) == TaskEnds(n, resp) /\ UNCHANGED out

\* a loop that merges the results in the order the tasks ended in
AwaitHandleAsCompleted ==
    /\ pc = "await"
    /\ hIdx <= Len(handles)
    /\ hIdx <= Len(out)
    /\ LET mod_name == out[hIdx]
           acc == MergeResult(
                      [mods |-> db.mods, cat_mods |-> category_mods],
                      mod_name,
                      scrape_mod_page(mod_name, task[mod_name].resp),
                      mod_categories)
       IN /\ db' = [db EXCEPT !.mods = acc.mods]
          /\ category_mods' = acc.cat_mods
    /\ hIdx' = hIdx + 1
    /\ UNCHANGED <<file, now, pc, cmd, catIdx, listing, all_mod_names,
                   mod_categories, handles, task, fetches, writes, served,
                   failure, gate, startFile, arg, out>>

\* a loop that merges what a handle holds without awaiting its task
AwaitHandleEarly ==
    /\ pc = "await"
    /\ hIdx <= Len(handles)
    /\ LET mod_name == handles[hIdx]
           acc == MergeResult(
                      [mods |-> db.mods, cat_mods |-> category_mods],
                      mod_name,
                      scrape_mod_page(mod_name, task[mod_name].resp),
                      mod_categories)
       IN /\ db' = [db EXCEPT !.mods = acc.mods]
          /\ category_mods' = acc.cat_mods
    /\ hIdx' = hIdx + 1
    /\ UNCHANGED <<file, now, pc, cmd, catIdx, listing, all_mod_names,
                   mod_categories, handles, task, fetches, writes, served,
                   failure, gate, startFile, arg, out>>

\* lines 323-352: the next handle is awaited and its result merged.  The
\* JoinError arm (lines 346-350) is not taken: a task neither panics nor is
\* cancelled.
AwaitHandle ==
    /\ pc = "await"
    /\ hIdx <= Len(handles)
    /\ LET mod_name == handles[hIdx] IN
       /\ task[mod_name].st = "done"
       /\ LET acc == MergeResult(
                         [mods |-> db.mods, cat_mods |-> category_mods],
                         mod_name,
                         scrape_mod_page(mod_name, task[mod_name].resp),
                         mod_categories)
          IN /\ db' = [db EXCEPT !.mods = acc.mods]
             /\ category_mods' = acc.cat_mods
    /\ hIdx' = hIdx + 1
    /\ UNCHANGED <<file, now, pc, cmd, catIdx, listing, all_mod_names,
                   mod_categories, handles, task, fetches, writes, served,
                   failure, gate, startFile, arg, out>>

\* lines 354-355: the index is stored and the database returned
FinishRefresh ==
    /\ pc = "await"
    /\ hIdx > Len(handles)
    /\ db' = [db EXCEPT !.categories = category_mods]
    /\ pc' = "save"
    /\ UNCHANGED <<file, now, cmd, catIdx, listing, all_mod_names,
                   mod_categories, handles, task, hIdx, category_mods,
                   fetches, writes, served, failure, gate, startFile, arg, out>>

\* lines 116 and 646: db.save(); the directory and the file can be written
Save ==
    /\ pc = "save"
    /\ file' = save(db)
    /\ writes' = writes + 1
    /\ pc' = IF cmd = "update" THEN "done" ELSE "serve"
    /\ UNCHANGED <<now, cmd, db, refreshVars, fetches, served, failure,
                   gate, startFile, arg, out>>

\* lines 653-667: the query is answered from the database
Serve(name) ==
    /\ pc = "serve"
    /\ served' = [done |-> TRUE, db |-> db]
    /\ IF cmd = "info" /\ ~show_mod_info(db, name)
       THEN /\ failure' = "not_found"
            /\ pc' = "failed"
       ELSE /\ pc' = "done"
            /\ UNCHANGED failure
    /\ arg' = IF cmd = "info" THEN name ELSE arg
    /\ UNCHANGED <<file, now, cmd, db, refreshVars, fetches, writes,
                   gate, startFile, out>>

Next ==
    \/ \E c \in Commands : Main(c)
    \/ EnsureFresh
    \/ \E resp \in CategoryResponses : CollectCategory(resp)
    \/ \E order \in Orders(all_mod_names) : SpawnTasks(order)
    \/ \E n \in DOMAIN task, resp \in PageResponses : TaskRun(n, resp)
    \/ AwaitHandle
    \/ FinishRefresh
    \/ Save
    \/ \E name \in InfoNames : Serve(name)

Spec == Init /\ [][Next]_vars

-----------------------------------------------------------------------------
(* The staleness gate on its own: every database and clock of a range *)

\* the latest instant of the range: two hours past the threshold
GateClockMax == (UpdateAfterHours + 2) * TicksPerHour

GateStamps == {Garbage} \cup {ToRfc3339(t) : t \in 0..GateClockMax}

GateDatabases ==
    {PriorDatabase(stamp) : stamp \in GateStamps}
    \cup {EmptyDatabase(stamp) : stamp \in GateStamps}

InitGate ==
    /\ db \in GateDatabases
    /\ now \in 0..GateClockMax
    /\ file = FileOf(db)
    /\ startFile = file
    /\ pc = "gate"
    /\ cmd = "none"
    /\ catIdx = 0
    /\ listing = [c \in CategoryNames |-> NoListing]
    /\ all_mod_names = {}
    /\ mod_categories = EmptyMap
    /\ handles = <<>>
    /\ task = EmptyMap
    /\ hIdx = 0
    /\ category_mods = EmptyMap
    /\ fetches = 0
    /\ writes = 0
    /\ served = [done |-> FALSE, db |-> NoDatabase]
    /\ failure = "none"
    /\ gate = "unasked"
    /\ arg = <<>>
    /\ out = <<>>

\* line 111: db.should_update()
AskGate ==
    /\ pc = "gate"
    /\ gate' = IF should_update(db, now) THEN "refresh" ELSE "fresh"
    /\ pc' = "asked"
    /\ UNCHANGED <<file, now, cmd, db, refreshVars, fetches, writes, served,
                   failure, startFile, arg, out>>

NextGate == AskGate

SpecGate == InitGate /\ [][NextGate]_vars

-----------------------------------------------------------------------------
(* Vocabulary of the properties *)

\* the snapshot in the cache file
snapshot == file.content

\* this run has saved a snapshot
Saved == writes > 0

\* the run has ended
Ended == pc \in {"done", "failed"}

\* the names a category's listing yielded, none when the listing failed
MembersOf(c) == Range(scrape_category_page(listing[c]).mod_names)

ListingOk(c) == scrape_category_page(listing[c]).ok

ListingFailed(c) == listing[c] # NoListing /\ ~ListingOk(c)

\* the categories whose listing names n
ListedBy(n) == {c \in CategoryNames : n \in MembersOf(c)}

\* the buckets of the index that hold n
BucketsOf(d, n) == {c \in DOMAIN d.categories : n \in Range(d.categories[c])}

ItemFailed(n) == task[n].st = "done" /\ task[n].resp.transport = TransportError

ItemSucceeded(n) == task[n].st = "done" /\ task[n].resp.transport = Arrived

\* the record a task's answer parses to
Parsed(n) == scrape_mod_page(n, task[n].resp).info

\* the snapshot holds a record of the page of n
HasRecordOf(d, n) == \E k \in DOMAIN d.mods : d.mods[k].wiki_url = WikiUrl(n)

\* the cache the run found is fresh: it has items, its time stamp parses and
\* it is younger than the threshold
StartFresh ==
    /\ startFile.exists /\ startFile.valid
    /\ DOMAIN startFile.content.mods # {}
    /\ startFile.content.last_updated.rfc3339
    /\ now - startFile.content.last_updated.instant
           < UpdateAfterHours * TicksPerHour

\* the cache the run found is readable (or absent) and not fresh
StartStale == ~StartFresh /\ startFile # FileCorrupt

-----------------------------------------------------------------------------
(* C1 *)

\* C1: after every refresh, each item whose detail fetch failed is absent
\* from the saved snapshot (no key of the items mapping and no entry of a
\* bucket bears its name), each item whose fetch succeeded has its record in
\* the snapshot, and the snapshot is saved.
C1_FailedAbsentSucceededPresent ==
    Saved =>
        /\ file = FileOf(db)
        /\ \A n \in DOMAIN task :
               /\ ItemFailed(n) =>
                      /\ n \notin DOMAIN snapshot.mods
                      /\ BucketsOf(snapshot, n) = {}
               /\ ItemSucceeded(n) => HasRecordOf(snapshot, n)

(* C2 *)

\* C2: in every snapshot a refresh produced, every name listed in the index
\* under category c is stored with category c.
C2_IndexMatchesCategory ==
    Saved =>
        \A c \in DOMAIN snapshot.categories :
            \A n \in Range(snapshot.categories[c]) :
                /\ n \in DOMAIN snapshot.mods
                /\ snapshot.mods[n].category = c

(* C3 *)

\* C3: an item listed by two or more categories appears in at most one bucket
\* of the index, and when it is in the snapshot it is in exactly the bucket of
\* its category.
C3_OneCategoryPerItem ==
    Saved =>
        \A n \in all_mod_names :
            Cardinality(ListedBy(n)) >= 2 =>
                /\ Cardinality(BucketsOf(snapshot, n)) <= 1
                /\ n \in DOMAIN snapshot.mods =>
                       BucketsOf(snapshot, n) = {snapshot.mods[n].category}

(* C4 *)

\* C4: the gate asks for a refresh exactly when the snapshot has no items, or
\* its time stamp does not parse, or at least 24 hours have passed since it.
C4_StalenessGate ==
    pc = "asked" =>
        ((gate = "refresh") <=>
            \/ DOMAIN db.mods = {}
            \/ ~db.last_updated.rfc3339
            \/ now - db.last_updated.instant >= UpdateAfterHours * TicksPerHour)

\* a snapshot with items stamped 25 hours ago was found stale
C4_Witness ==
    /\ pc = "asked"
    /\ gate = "refresh"
    /\ DOMAIN db.mods # {}
    /\ db.last_updated.rfc3339
    /\ now - db.last_updated.instant = (UpdateAfterHours + 1) * TicksPerHour

(* C5 *)

\* C5 as stated: whatever the command, a run that finds a corrupt cache file
\* ends with the error, having fetched nothing and written nothing.
C5_CorruptFatalEveryCommand ==
    (startFile = FileCorrupt /\ Ended) =>
        /\ pc = "failed"
        /\ failure = "cache_corrupt"
        /\ fetches = 0
        /\ writes = 0
        /\ file = FileCorrupt

\* C5: for every command but update, a run that finds a corrupt cache file
\* ends with the error: no fallback to an empty catalog, no gate asked, no
\* fetch, no write, nothing served; the update command does not read the
\* file, refreshes and overwrites it.
C5_CorruptFatalExceptUpdate ==
    startFile = FileCorrupt =>
        /\ cmd \notin {"none", "update"} =>
               /\ file = FileCorrupt
               /\ fetches = 0 /\ writes = 0
               /\ gate = "unasked"
               /\ ~served.done
               /\ pc \in {"ensure", "failed"}
               /\ pc = "failed" => failure = "cache_corrupt"
        /\ (cmd = "update" /\ Ended) =>
               /\ pc = "done"
               /\ writes = 1
               /\ file = FileOf(db)

\* an info command ended with the corrupt-cache error
C5_Witness ==
    /\ startFile = FileCorrupt
    /\ cmd = "info"
    /\ pc = "failed"
    /\ failure = "cache_corrupt"

(* C6 *)

\* C6: the update command never asks the staleness gate; when it ends it has
\* requested every category's listing, and has saved the snapshot it built.
C6_UpdateAlwaysRefreshes ==
    cmd = "update" =>
        /\ pc \in {"collect", "spawn", "await", "save", "done"}
        /\ gate = "unasked"
        /\ pc = "done" =>
               /\ \A c \in CategoryNames : listing[c] # NoListing
               /\ fetches >= Len(categories)
               /\ writes = 1
               /\ file = FileOf(db)
               /\ db.last_updated = ToRfc3339(now)
               /\ DOMAIN db.categories = CategoryNames

\* an update over a fresh cache refreshed and saved
C6_Witness ==
    /\ cmd = "update"
    /\ pc = "done"
    /\ StartFresh
    /\ writes = 1
    /\ DOMAIN snapshot.mods # {}

(* C7 *)

\* C7: a command other than update that finds a fresh cache sends no request,
\* does not write the file and answers from the cached snapshot; one that
\* finds a stale cache has refreshed and saved before it answers.
C7_FreshServedUntouched ==
    cmd \notin {"none", "update"} =>
        /\ StartFresh =>
               /\ fetches = 0
               /\ writes = 0
               /\ file = startFile
               /\ pc \in {"ensure", "serve", "done", "failed"}
               /\ pc = "serve" => db = startFile.content
               /\ served.done => served.db = startFile.content
        /\ (StartStale /\ (pc = "serve" \/ served.done)) =>
               /\ writes = 1
               /\ fetches >= Len(categories)
               /\ file = FileOf(db)
               /\ served.done => served.db = snapshot

\* a browse over a fresh cache was answered
C7_Witness ==
    /\ cmd = "browse"
    /\ StartFresh
    /\ pc = "done"
    /\ served.done

(* C8 *)

\* C8: an item whose page request was answered with a non-success status has
\* no record in the snapshot, and every name of the work set comes from a
\* listing that was answered with a success status.
C8_NonSuccessIsFailure ==
    Saved =>
        /\ \A n \in DOMAIN task :
               (task[n].resp.transport = Arrived /\ task[n].resp.status # 200)
                   => ~HasRecordOf(snapshot, n)
        /\ \A n \in all_mod_names :
               \E c \in ListedBy(n) : listing[c].status = 200

(* C9 *)

\* C9: every record of the saved snapshot is the record an item task of this
\* refresh parsed, with the category this refresh assigned; every index entry
\* names such a record; the index has the configured categories and the
\* time stamp is this refresh's.
C9_ReplacedWholesale ==
    Saved =>
        /\ \A k \in DOMAIN snapshot.mods :
               \E n \in DOMAIN task :
                   /\ ItemSucceeded(n)
                   /\ k = Parsed(n).name
                   /\ snapshot.mods[k] =
                          [Parsed(n) EXCEPT !.category = mod_categories[n]]
        /\ DOMAIN snapshot.categories = CategoryNames
        /\ \A c \in DOMAIN snapshot.categories :
               \A k \in Range(snapshot.categories[c]) :
                   \E n \in DOMAIN task :
                       /\ ItemSucceeded(n)
                       /\ k = Parsed(n).name
                       /\ mod_categories[n] = c
        /\ snapshot.last_updated = ToRfc3339(now)

\* a stale cache holding Old Mod was replaced by a refresh in which one item
\* failed and another succeeded
C9_Witness ==
    /\ Saved
    /\ cmd = "search"
    /\ startFile.valid
    /\ OldMod \in DOMAIN startFile.content.mods
    /\ OldMod \notin DOMAIN snapshot.mods
    /\ DOMAIN snapshot.mods # {}
    /\ \E n \in DOMAIN task : ItemFailed(n)

(* C10 *)

\* C10: once the categories are collected the work set is exactly the members
\* of the listings that succeeded, whatever listings failed; the refresh goes
\* on: every such member gets a task and, when its fetch succeeds, a record.
C10_ListingFailureIsolated ==
    catIdx > Len(categories) =>
        /\ all_mod_names =
               UNION {MembersOf(c) : c \in {x \in CategoryNames : ListingOk(x)}}
        /\ pc \in {"spawn", "await", "save", "serve", "done", "failed"}
        /\ pc = "failed" => failure = "not_found"
        /\ pc # "spawn" => DOMAIN task = all_mod_names
        /\ Saved =>
               \A n \in all_mod_names :
                   ItemSucceeded(n) => Parsed(n).name \in DOMAIN snapshot.mods

\* one listing failed, another succeeded, and its member is in the snapshot
C10_Witness ==
    /\ Saved
    /\ \E c \in CategoryNames : ListingFailed(c)
    /\ \E c \in CategoryNames :
           /\ ListingOk(c)
           /\ \E n \in MembersOf(c) :
                  ItemSucceeded(n) /\ Parsed(n).name \in DOMAIN snapshot.mods

-----------------------------------------------------------------------------
(* search_mods and calculate_search_score on their own *)

\* line 419: matches.iter().take(20)
SearchCap == 20

\* str::contains for a pattern of several words
ContainsSeq(s, q) ==
    \E i \in 0..(Len(s) - Len(q)) : SubSeq(s, i + 1, i + Len(q)) = q

\* Option<String>
None == [some |-> FALSE, value |-> <<>>]
Some(v) == [some |-> TRUE, value |-> v]

\* a ModInfo with the fields the search reads
SearchInfo(name, description, author, category) ==
    [name |-> name, description |-> description, author |-> author,
     category |-> category]

\* calculate_search_score
calculate_search_score(mod_info, query) ==
    (IF ToLower(mod_info.name) = query THEN 100
     ELSE IF ContainsSeq(ToLower(mod_info.name), query) THEN 50 ELSE 0)
    + (IF ContainsSeq(ToLower(mod_info.description), query) THEN 25 ELSE 0)
    + (IF mod_info.author.some
          /\ ContainsSeq(ToLower(mod_info.author.value), query)
       THEN 20 ELSE 0)
    + (IF ContainsSeq(ToLower(mod_info.category), query) THEN 15 ELSE 0)

\* lines 402-407: the mods of positive score, in iteration order
RECURSIVE Matches(_, _)
Matches(mods, query_lower) ==
    IF mods = <<>>
    THEN <<>>
    ELSE LET score == calculate_search_score(Head(mods), query_lower) IN
         (IF score > 0 THEN <<[mod |-> Head(mods), score |-> score]>>
                       ELSE <<>>)
         \o Matches(Tail(mods), query_lower)

\* one match enters a list sorted by falling score, behind its equals
RECURSIVE InsertByScore(_, _)
InsertByScore(sorted, m) ==
    IF sorted = <<>>
    THEN <<m>>
    ELSE IF Head(sorted).score >= m.score
    THEN <<Head(sorted)>> \o InsertByScore(Tail(sorted), m)
    ELSE <<m>> \o sorted

\* line 409: matches.sort_by(|a, b| b.1.cmp(&a.1)), a stable sort
RECURSIVE SortByScore(_)
SortByScore(matches) ==
    IF matches = <<>>
    THEN <<>>
    ELSE InsertByScore(SortByScore(SubSeq(matches, 1, Len(matches) - 1)),
                       matches[Len(matches)])

\* Iterator::take
Take(seq, n) == SubSeq(seq, 1, IF Len(seq) < n THEN Len(seq) ELSE n)

\* a search that shows every match
search_mods_uncapped(mods, query) ==
    SortByScore(Matches(mods, ToLower(query)))

\* search_mods: the matches shown, mods being db.mods.values()
search_mods(mods, query) ==
    Take(SortByScore(Matches(mods, ToLower(query))), SearchCap)

Letters ==
    <<"a", "b", "c", "d", "e", "f", "g", "h", "i", "j", "k", "l", "m", "n",
      "o", "p", "q", "r", "s", "t", "u", "v", "w", "x", "y", "z">>

\* the i-th mod of a catalog whose descriptions, authors and categories
\* follow pattern p
SearchMod(i, p) ==
    SearchInfo(<<"Mod", Letters[i]>>,
               IF (i + p) % 2 = 0 THEN <<"Adds", "joker", "cards">>
                                  ELSE <<"plain">>,
               IF (i + p) % 3 = 0 THEN Some(<<"Joker", "Fan">>) ELSE None,
               IF i % 4 = 0 THEN <<"Joker", "Mods">> ELSE <<"Content", "Mods">>)

\* db.mods.values() of a catalog of n mods, iterated from its r-th mod on
SearchCatalog(n, p, r) ==
    [i \in 1..n |-> SearchMod(((i + r - 1) % n) + 1, p)]

SearchQueries ==
    {<<"Mod">>, <<"MOD", "c">>, <<"mod", "d">>, <<"joker">>, <<"Joker", "Mods">>,
     <<"fan">>, <<"nothing">>, <<>>}

SearchPatterns == 0..2

InitSearch ==
    /\ \E n \in 0..(SearchCap + 2), p \in SearchPatterns :
           \E r \in {0, n \div 2} :
               \E q \in SearchQueries :
                   arg = [mods |-> SearchCatalog(n, p, r), query |-> q]
    /\ out = <<>>
    /\ pc = "search"
    /\ file = FileAbsent
    /\ startFile = file
    /\ now = 0
    /\ cmd = "search"
    /\ db = NoDatabase
    /\ catIdx = 0
    /\ listing = [c \in CategoryNames |-> NoListing]
    /\ all_mod_names = {}
    /\ mod_categories = EmptyMap
    /\ handles = <<>>
    /\ task = EmptyMap
    /\ hIdx = 0
    /\ category_mods = EmptyMap
    /\ fetches = 0
    /\ writes = 0
    /\ served = [done |-> FALSE, db |-> NoDatabase]
    /\ failure = "none"
    /\ gate = "unasked"

\* line 658: search_mods(&db, &query)
Search ==
    /\ pc = "search"
    /\ out' = search_mods(arg.mods, arg.query)
    /\ pc' = "searched"
    /\ UNCHANGED <<file, now, cmd, db, refreshVars, fetches, writes, served,
                   failure, gate, startFile, arg>>

NextSearch == Search

SpecSearch == InitSearch /\ [][NextSearch]_vars

(* C11 *)

\* the mods of the searched catalog that score above zero
Positive == {i \in DOMAIN arg.mods :
                calculate_search_score(arg.mods[i], ToLower(arg.query)) > 0}

\* C11: the list search shows holds only mods of the catalog with a score
\* above zero, in order of non-increasing score, at most 20 of them, and no
\* mod left out scores above zero and higher than a mod shown, nor is a
\* positive mod left out while there is room.
C11_SearchResults ==
    pc = "searched" =>
        /\ Len(out) <= SearchCap
        /\ \A i \in DOMAIN out :
               /\ out[i].score > 0
               /\ \E j \in Positive :
                      /\ arg.mods[j] = out[i].mod
                      /\ out[i].score = calculate_search_score(
                                            arg.mods[j], ToLower(arg.query))
        /\ \A i, j \in DOMAIN out : i < j => out[i].score >= out[j].score
        /\ \A i, j \in DOMAIN out : i # j => out[i].mod # out[j].mod
        /\ \A j \in Positive :
               \/ \E i \in DOMAIN out : out[i].mod = arg.mods[j]
               \/ /\ Len(out) = SearchCap
                  /\ \A i \in DOMAIN out :
                         out[i].score >= calculate_search_score(
                                             arg.mods[j], ToLower(arg.query))

\* more than 20 mods matched with different scores and 20 were shown
C11_Witness ==
    /\ pc = "searched"
    /\ Cardinality(Positive) > SearchCap
    /\ Len(out) = SearchCap
    /\ out[1].score > out[SearchCap].score

-----------------------------------------------------------------------------
(* calculate_search_score for two queries on one mod *)

ScoreNames == {<<"Joker", "Pack">>, <<"Joker">>}

ScoreDescriptions == {<<"Adds", "joker", "cards">>, <<"The", "joker", "pack">>,
                      <<"plain">>}

ScoreAuthors == {None, Some(<<"Joker", "Fan">>), Some(<<"Unknown">>)}

ScoreCategories == {<<"Joker", "Mods">>, <<"Content", "Mods">>}

ScoreQueries == {<<"joker", "pack">>, <<"JOKER", "Pack">>, <<"joker">>,
                 <<"pack">>, <<"mods">>}

InitScore ==
    /\ \E n \in ScoreNames, d \in ScoreDescriptions, a \in ScoreAuthors,
          c \in ScoreCategories, q1 \in ScoreQueries, q2 \in ScoreQueries :
           arg = [mod |-> SearchInfo(n, d, a, c), first |-> q1, second |-> q2]
    /\ out = <<>>
    /\ pc = "score"
    /\ file = FileAbsent
    /\ startFile = file
    /\ now = 0
    /\ cmd = "search"
    /\ db = NoDatabase
    /\ catIdx = 0
    /\ listing = [c \in CategoryNames |-> NoListing]
    /\ all_mod_names = {}
    /\ mod_categories = EmptyMap
    /\ handles = <<>>
    /\ task = EmptyMap
    /\ hIdx = 0
    /\ category_mods = EmptyMap
    /\ fetches = 0
    /\ writes = 0
    /\ served = [done |-> FALSE, db |-> NoDatabase]
    /\ failure = "none"
    /\ gate = "unasked"

\* lines 399 and 403: the mod is scored for each of the two queries
Score ==
    /\ pc = "score"
    /\ out' = [first |-> calculate_search_score(arg.mod, ToLower(arg.first)),
               second |-> calculate_search_score(arg.mod, ToLower(arg.second))]
    /\ pc' = "scored"
    /\ UNCHANGED <<file, now, cmd, db, refreshVars, fetches, writes, served,
                   failure, gate, startFile, arg>>

NextScore == Score

SpecScore == InitScore /\ [][NextScore]_vars

(* C12 *)

\* the query is the name but for the case of its letters
IsExactName(mod_info, query) == ToLower(mod_info.name) = ToLower(query)

\* the query is a part of the name, and not all of it
IsNamePart(mod_info, query) ==
    /\ ~IsExactName(mod_info, query)
    /\ ContainsSeq(ToLower(mod_info.name), ToLower(query))

\* C12: a query equal to the mod's name scores strictly higher than a query
\* that is only a part of its name.
C12_ExactBeatsSubstring ==
    (pc = "scored" /\ IsExactName(arg.mod, arg.first)
                   /\ IsNamePart(arg.mod, arg.second))
        => out.first > out.second

-----------------------------------------------------------------------------
(* truncate *)

\* no run of the program is under way: the state a pure function is asked in
Idle ==
    /\ file = FileAbsent
    /\ startFile = file
    /\ now = 0
    /\ catIdx = 0
    /\ listing = [c \in CategoryNames |-> NoListing]
    /\ all_mod_names = {}
    /\ mod_categories = EmptyMap
    /\ handles = <<>>
    /\ task = EmptyMap
    /\ hIdx = 0
    /\ category_mods = EmptyMap
    /\ fetches = 0
    /\ writes = 0
    /\ served = [done |-> FALSE, db |-> NoDatabase]
    /\ failure = "none"
    /\ gate = "unasked"

idleVars == <<file, now, refreshVars, fetches, writes, served, failure, gate,
              startFile>>

MaxStrLen == 5

Chars == {"a", "b"}

\* a string is the sequence of its chars
Strings == UNION {[1..n -> Chars] : n \in 0..MaxStrLen}

Ellipsis == <<".", ".", ".">>

\* lines 621-631: push chars while char_count + 3 < max_len
RECURSIVE TruncateLoop(_, _, _)
TruncateLoop(s, max_len, result) ==
    IF Len(result) = Len(s) \/ Len(result) + 3 >= max_len
    THEN result
    ELSE TruncateLoop(s, max_len, Append(result, s[Len(result) + 1]))

truncate(s, max_len) ==
    IF Len(s) <= max_len
    THEN s
    ELSE IF max_len <= 3
    THEN Ellipsis
    ELSE TruncateLoop(s, max_len, <<>>) \o Ellipsis

InitTruncate ==
    /\ \E s \in Strings, max_len \in 0..(MaxStrLen + 1) :
           arg = [s |-> s, max_len |-> max_len]
    /\ out = <<>>
    /\ pc = "truncate"
    /\ cmd = "browse"
    /\ db = NoDatabase
    /\ Idle

Truncate ==
    /\ pc = "truncate"
    /\ out' = truncate(arg.s, arg.max_len)
    /\ pc' = "truncated"
    /\ UNCHANGED <<idleVars, cmd, db, arg>>

NextTruncate == Truncate

SpecTruncate == InitTruncate /\ [][NextTruncate]_vars

(* C13 *)

\* C13: truncate(s, max_len) never returns more than max_len chars, for any
\* string and any max_len from 0 up.
C13_TruncateWithinMax ==
    pc = "truncated" => Len(out) <= arg.max_len

-----------------------------------------------------------------------------
(* Parsing a category listing *)

MaxListing == 3

ParseTitles == {FooMod, CategoryMeta, <<"File:", "Logo">>,
                <<"Template:", "Infobox">>, <<"Foo", "File:", "Tools">>}

ParseListings == UNION {[1..n -> ParseTitles] : n \in 0..MaxListing}

ParseResponses ==
    {[transport |-> TransportError, status |-> 0, body |-> NotJson]}
    \cup {[transport |-> Arrived, status |-> 200, body |-> b] :
              b \in {NotJson, NoMembers}
                    \cup {Members(l) : l \in ParseListings}}

InitParse ==
    /\ arg \in ParseResponses
    /\ out = <<>>
    /\ pc = "parse"
    /\ cmd = "update"
    /\ db = NoDatabase
    /\ Idle

\* lines 180-207: the answer of the wiki is parsed
Parse ==
    /\ pc = "parse"
    /\ out' = scrape_category_page(arg)
    /\ pc' = "parsed"
    /\ UNCHANGED <<idleVars, cmd, db, arg>>

NextParse == Parse

SpecParse == InitParse /\ [][NextParse]_vars

(* C14 *)

NamespacePrefixes == {"Category:", "File:", "Template:"}

\* the title begins with the prefix of a non-content namespace
HasNamespacePrefix(title) ==
    title # <<>> /\ title[1] \in NamespacePrefixes

RECURSIVE ContentTitles(_)
ContentTitles(titles) ==
    IF titles = <<>>
    THEN <<>>
    ELSE IF HasNamespacePrefix(Head(titles))
    THEN ContentTitles(Tail(titles))
    ELSE <<Head(titles)>> \o ContentTitles(Tail(titles))

\* C14: a parsed listing yields exactly the titles that do not begin with a
\* namespace prefix, in listing order, a title with a namespace marker
\* elsewhere in it included; an absent or empty member section yields the
\* empty sequence and no error.
C14_PrefixFilter ==
    (pc = "parsed" /\ arg.transport = Arrived /\ arg.body.json)
        => /\ out.ok
           /\ out.mod_names = IF arg.body.members
                              THEN ContentTitles(arg.body.titles)
                              ELSE <<>>

-----------------------------------------------------------------------------
(* info on a loaded database *)

InfoStored == {FooMod, BarMod, <<"Foo">>, <<"Mod">>, <<"Foo", "Mod", "Plus">>}

InfoAsked == {<<"foo", "mod">>, <<"FOO", "MOD">>, <<"Foo">>, <<"mod">>,
              <<"Nonexistent", "Mod">>}

\* a database that holds the mods of the given names, saved at time t
InfoDatabase(names, t) ==
    [mods |-> [n \in names |-> ModInfo(n, WikiUrl(n), categories[1][1])],
     categories |-> [c \in CategoryNames |->
                        IF c = categories[1][1]
                        THEN CHOOSE order \in Orders(names) : TRUE
                        ELSE <<>>],
     last_updated |-> ToRfc3339(t)]

\* lines 650-652: the cache was loaded and found fresh; the command is info
InitInfo ==
    /\ \E names \in (SUBSET InfoStored) \ {{}} : db = InfoDatabase(names, 0)
    /\ file = FileOf(db)
    /\ startFile = file
    /\ now = 0
    /\ pc = "serve"
    /\ cmd = "info"
    /\ gate = "fresh"
    /\ arg = <<>>
    /\ out = <<>>
    /\ catIdx = 0
    /\ listing = [c \in CategoryNames |-> NoListing]
    /\ all_mod_names = {}
    /\ mod_categories = EmptyMap
    /\ handles = <<>>
    /\ task = EmptyMap
    /\ hIdx = 0
    /\ category_mods = EmptyMap
    /\ fetches = 0
    /\ writes = 0
    /\ served = [done |-> FALSE, db |-> NoDatabase]
    /\ failure = "none"

NextInfo == \E name \in InfoAsked : Serve(name)

SpecInfo == InitInfo /\ [][NextInfo]_vars

(* C15 *)

\* two names are equal when the case of their letters is left aside
SameIgnoringCase(a, b) ==
    /\ Len(a) = Len(b)
    /\ \A i \in 1..Len(a) : LowerWord(a[i]) = LowerWord(b[i])

\* C15: info(name) succeeds exactly when some stored mod's name equals the
\* given name but for case, and otherwise fails with the not-found error that
\* ends the run as a failure; a name that is only a part of a stored name
\* does not match.
C15_InfoExactMatch ==
    (cmd = "info" /\ pc \in {"done", "failed"})
        => LET found == \E k \in DOMAIN db.mods :
                            SameIgnoringCase(db.mods[k].name, arg)
           IN  /\ (pc = "done") <=> found
               /\ (pc = "failed") => failure = "not_found"

\* "foo mod" found "Foo Mod" in a database that also holds "Foo Mod Plus"
C15_Witness ==
    /\ cmd = "info"
    /\ pc = "done"
    /\ arg = <<"foo", "mod">>
    /\ FooMod \in DOMAIN db.mods
    /\ <<"Foo", "Mod", "Plus">> \in DOMAIN db.mods

-----------------------------------------------------------------------------
(* C16 *)

\* C16: in every snapshot a refresh produced, every name in a bucket of the
\* category index is a key of the items mapping, and every key of the items
\* mapping is the name of the record stored under it.
C16_IndexNamesAreKeys ==
    Saved =>
        /\ \A c \in DOMAIN snapshot.categories :
               Range(snapshot.categories[c]) \subseteq DOMAIN snapshot.mods
        /\ \A k \in DOMAIN snapshot.mods : snapshot.mods[k].name = k

\* a saved snapshot with a filled bucket, made from two fetched pages of
\* which one carries the other's name as its heading
C16_Witness ==
    /\ Saved
    /\ \E c \in DOMAIN snapshot.categories : snapshot.categories[c] # <<>>
    /\ \E n \in all_mod_names :
           ItemSucceeded(n) /\ Parsed(n).name # n
                            /\ Parsed(n).name \in DOMAIN snapshot.mods

-----------------------------------------------------------------------------
(* C17 *)

\* the last category, in the configured order, whose listing names n
LastListing(n) ==
    LET i == CHOOSE i \in 1..Len(categories) :
                 /\ categories[i][1] \in ListedBy(n)
                 /\ \A j \in (i + 1)..Len(categories) :
                        categories[j][1] \notin ListedBy(n)
    IN  categories[i][1]

\* C17: an item name that several categories list is assigned, in the saved
\* snapshot, the last of those categories in the configured order whose
\* listing succeeded, whatever the order the tasks ran and were awaited in.
C17_LastListingWins ==
    Saved =>
        \A n \in DOMAIN snapshot.mods :
            Cardinality(ListedBy(n)) >= 2
                => snapshot.mods[n].category = LastListing(n)

-----------------------------------------------------------------------------
(* C18 *)

\* the names the listings that succeeded yielded
Collected == UNION {MembersOf(c) : c \in {x \in CategoryNames : ListingOk(x)}}

\* the requests this run has sent for listings
ListingFetches == Cardinality({c \in CategoryNames : listing[c] # NoListing})

\* C18: a refresh launches exactly one item task per name collected across
\* the categories: a name that several categories list has one task and one
\* page request, and a name that no succeeded listing holds has none.
C18_OneTaskPerName ==
    pc \in {"await", "save", "serve", "done", "failed"} =>
        /\ Range(handles) = Collected
        /\ Len(handles) = Cardinality(Collected)
        /\ DOMAIN task = Collected
        /\ fetches = ListingFetches
                     + Cardinality({n \in DOMAIN task : task[n].st = "done"})

\* a refresh was saved in which a name listed by two categories and another
\* name were fetched once each
C18_Witness ==
    /\ Saved
    /\ \E n \in all_mod_names : Cardinality(ListedBy(n)) >= 2
    /\ Len(handles) = 2
    /\ fetches = Len(categories) + 2

-----------------------------------------------------------------------------
(* C19 *)

\* update_database_with_verbosity is running
Refreshing == pc \in {"collect", "spawn", "await"}

\* d has the shape of a snapshot: a bucket for each configured category, a
\* record for each name in a bucket, a time stamp that parses
ValidSnapshot(d) ==
    /\ DOMAIN d.categories = CategoryNames
    /\ \A c \in CategoryNames : Range(d.categories[c]) \subseteq DOMAIN d.mods
    /\ d.last_updated.rfc3339

\* C19: the refresh never fails: whatever listings and item fetches fail it
\* goes on to return a snapshot, and when no listing succeeded the snapshot it
\* returns is valid and has no items.
C19_RefreshNeverFails ==
    /\ pc = "failed" => failure \in {"cache_corrupt", "not_found"}
    /\ Refreshing => ENABLED Next
    /\ pc = "save" =>
           /\ ValidSnapshot(db)
           /\ (\A c \in CategoryNames : ~ListingOk(c))
                  => /\ db.mods = EmptyMap
                     /\ \A c \in CategoryNames : db.categories[c] = <<>>

\* every listing failed and the refresh returned an empty snapshot
C19_Witness ==
    /\ pc = "save"
    /\ \A c \in CategoryNames : ListingFailed(c)
    /\ db.mods = EmptyMap

-----------------------------------------------------------------------------
(* The refresh under fair scheduling *)

\* the function runs on: each await of a listing returns, the loops advance;
\* and every spawned task completes or fails (tokio runs it to its end)
RefreshFairness ==
    /\ WF_vars(\E resp \in CategoryResponses : CollectCategory(resp))
    /\ WF_vars(\E order \in Orders(all_mod_names) : SpawnTasks(order))
    /\ WF_vars(\E n \in DOMAIN task, resp \in PageResponses : TaskRun(n, resp))
    /\ WF_vars(AwaitHandle)
    /\ WF_vars(FinishRefresh)

SpecFair == Init /\ [][Next]_vars /\ RefreshFairness

(* C20 *)

\* the phases follow one another: collecting, then spawning the tasks, then
\* awaiting and merging, then the return
PhaseStep ==
    /\ pc = "collect" => pc' \in {"collect", "spawn"}
    /\ pc = "spawn" => pc' = "await"
    /\ pc = "await" => pc' \in {"await", "save"}
    /\ pc' = "spawn" => pc = "collect"
    /\ pc' = "await" => pc \in {"spawn", "await"}

\* nothing of a later phase exists while the categories are collected, and
\* tasks exist only when every category has been collected
PhaseState ==
    /\ pc = "collect" => /\ catIdx \in 1..Len(categories)
                         /\ DOMAIN task = {}
                         /\ handles = <<>>
    /\ pc \in {"collect", "spawn"} => db.mods = EmptyMap
    /\ pc \in {"spawn", "await"} => catIdx > Len(categories)
    /\ DOMAIN task # {} => catIdx > Len(categories)

\* C20: a refresh collects the categories, then launches the item tasks, then
\* merges, in that order, no task being launched before every category was
\* collected; and when every task completes or fails it returns.
C20_PhasesInOrderThenDone ==
    /\ [][PhaseStep]_vars
    /\ []PhaseState
    /\ (pc = "collect") ~> (pc = "save")

\* a refresh returned after two tasks, one failed and one succeeded
C20_Witness ==
    /\ pc = "save"
    /\ Len(handles) = 2
    /\ \E n \in DOMAIN task : ItemFailed(n)
    /\ \E n \in DOMAIN task : ItemSucceeded(n)

-----------------------------------------------------------------------------
(* C21 *)

\* a step of the await loop, or the assignment after it, writes to the
\* snapshot under construction
WritesSnapshot ==
    pc = "await" /\ (db' # db \/ category_mods' # category_mods)

\* every item task has reported back
AllReported == \A n \in DOMAIN task : task[n].st = "done"

\* C21: the snapshot under construction is assembled only after all item
\* tasks have reported back: nothing is written into it while an item task
\* still runs, and the step that writes is never a step of an item task.
C21_AssembledAfterAllTasks ==
    [][WritesSnapshot => (AllReported /\ task' = task)]_vars

\* C21, amended: a write into the snapshot under construction is a step of
\* the refreshing flow alone, never of an item task, and it comes when the
\* task of the handle being awaited and of every handle before it has
\* reported back; tasks of later handles may still be running.
C21_OneWriterInHandleOrder ==
    [][WritesSnapshot =>
           /\ task' = task
           /\ \A i \in 1..Len(handles) :
                  i <= hIdx => task[handles[i]].st = "done"]_vars

\* a record was merged while the task of a later handle is still running
C21_Witness ==
    /\ pc = "await"
    /\ db.mods # EmptyMap
    /\ hIdx <= Len(handles)
    /\ task[handles[hIdx]].st = "running"

-----------------------------------------------------------------------------
(* A forced refresh with the order of completion of its tasks on record *)

\* a task ends, and out takes down the order the tasks ended in
TaskRunLogged(n, resp) == TaskEnds(n, resp) /\ out' = Append(out, n)

InitMerge == Init /\ file = FileAbsent

NextMerge ==
    \/ Main("update")
    \/ \E resp \in CategoryResponses : CollectCategory(resp)
    \/ \E order \in Orders(all_mod_names) : SpawnTasks(order)
    \/ \E n \in DOMAIN task, resp \in PageResponses : TaskRunLogged(n, resp)
    \/ AwaitHandle
    \/ FinishRefresh
    \/ Save

SpecMerge == InitMerge /\ [][NextMerge]_vars

(* C22 *)

\* the results of the tasks of hs merged one after the other, in the order
\* of hs
RECURSIVE MergeAll(_, _)
MergeAll(acc, hs) ==
    IF hs = <<>>
    THEN acc
    ELSE MergeAll(MergeResult(acc, Head(hs),
                              scrape_mod_page(Head(hs), task[Head(hs)].resp),
                              mod_categories),
                  Tail(hs))

\* what the listings, the outcomes of the fetches and the order of the
\* handles determine
MergedInHandleOrder ==
    MergeAll([mods |-> EmptyMap,
              cat_mods |-> [c \in CategoryNames |-> <<>>]], handles)

\* C22: with the listings and the outcome of every item fetch fixed, the
\* items mapping, every item's category and the index of the snapshot are
\* the same for every order in which the item tasks complete.
C22_CompletionOrderIrrelevant ==
    pc \in {"save", "done"} =>
        /\ db.mods = MergedInHandleOrder.mods
        /\ db.categories = MergedInHandleOrder.cat_mods
        /\ Len(out) = Len(handles)

\* the two tasks ended in the order opposite to that of their handles, both
\* pages bear the same heading, and the refresh has returned
C22_Witness ==
    /\ pc = "save"
    /\ Len(handles) = 2
    /\ out = <<handles[2], handles[1]>>
    /\ \A n \in DOMAIN task : ItemSucceeded(n) /\ Parsed(n).name = FooMod

-----------------------------------------------------------------------------
(* Several runs of the program, one after the other, on one cache file *)

MaxRuns == 3

RunCommands == {"browse", "update"}

\* the wiki answers a listing with one member, or not at all
RunCategoryResponses ==
    {[transport |-> TransportError, status |-> 0, body |-> NotJson],
     [transport |-> Arrived, status |-> 200, body |-> Members(<<FooMod>>)]}

RunPageResponses ==
    {[transport |-> TransportError, status |-> 0, heading |-> NoHeading],
     [transport |-> Arrived, status |-> 200, heading |-> NoHeading]}

\* the first run finds a cache with items in it, stale or fresh
InitRuns ==
    /\ Init
    /\ file \in {FileOf(PriorDatabase(ToRfc3339(0))),
                 FileOf(PriorDatabase(ToRfc3339(StartClock - TicksPerHour)))}

\* the process has exited and the program is started again, at once or a
\* tick later; the cache file is what the ended run left, and out takes down
\* what the ended run did
NextRun ==
    /\ pc \in {"done", "failed"}
    /\ Len(out) + 1 < MaxRuns
    /\ out' = Append(out, [cmd |-> cmd,
                           refreshed |-> catIdx > 0,
                           items |-> Cardinality(DOMAIN file.content.mods)])
    /\ \E d \in 0..1 : now' = now + d
    /\ startFile' = file
    /\ pc' = "start"
    /\ cmd' = "none"
    /\ db' = NoDatabase
    /\ catIdx' = 0
    /\ listing' = [c \in CategoryNames |-> NoListing]
    /\ all_mod_names' = {}
    /\ mod_categories' = EmptyMap
    /\ handles' = <<>>
    /\ task' = EmptyMap
    /\ hIdx' = 0
    /\ category_mods' = EmptyMap
    /\ fetches' = 0
    /\ writes' = 0
    /\ served' = [done |-> FALSE, db |-> NoDatabase]
    /\ failure' = "none"
    /\ gate' = "unasked"
    /\ UNCHANGED <<file, arg>>

NextRuns ==
    \/ \E c \in RunCommands : Main(c)
    \/ EnsureFresh
    \/ \E resp \in RunCategoryResponses : CollectCategory(resp)
    \/ \E order \in Orders(all_mod_names) : SpawnTasks(order)
    \/ \E n \in DOMAIN task, resp \in RunPageResponses : TaskRun(n, resp)
    \/ AwaitHandle
    \/ FinishRefresh
    \/ Save
    \/ \E name \in InfoNames : Serve(name)
    \/ NextRun

SpecRuns == InitRuns /\ [][NextRuns]_vars

(* C23 *)

\* the run found a cache file that holds a snapshot without items
StartEmptySnapshot ==
    /\ startFile.exists /\ startFile.valid
    /\ DOMAIN startFile.content.mods = {}

\* no item fetch of this run's refresh succeeded: every listing failed, or
\* every item page did
NothingFetched == \A n \in DOMAIN task : ~ItemSucceeded(n)

\* the run before this one refreshed and left a snapshot with items
PreviousRunStoredItems ==
    /\ out # <<>>
    /\ out[Len(out)].refreshed
    /\ out[Len(out)].items > 0

\* the run has passed the staleness gate of a command other than update
PastGate == cmd \notin {"none", "update"} /\ pc \notin {"start", "ensure"}

\* C23: a refresh all of whose fetches fail still saves its empty snapshot
\* over the cache file, whatever items the file held; a later run of a
\* command other than update that finds the empty snapshot refreshes again,
\* whatever its age, and saves; once a refresh has stored an item the next
\* such run serves the cache without a refresh.
C23_EmptySnapshotRefreshedAgain ==
    /\ (Saved /\ NothingFetched)
           => /\ file.exists /\ file.valid
              /\ DOMAIN snapshot.mods = {}
    /\ (StartEmptySnapshot /\ PastGate)
           => /\ gate = "refresh"
              /\ catIdx > 0
              /\ pc \in {"serve", "done"} => Saved
    /\ (PreviousRunStoredItems /\ PastGate)
           => /\ gate = "fresh"
              /\ fetches = 0 /\ writes = 0

\* the first run's refresh failed and left an empty snapshot where the cache
\* held items; the next run, a browse started within the hour, has refreshed
\* again and stored an item
C23_Witness ==
    /\ Len(out) = 1
    /\ out[1].refreshed /\ out[1].items = 0
    /\ StartEmptySnapshot
    /\ cmd = "browse"
    /\ gate = "refresh"
    /\ Saved
    /\ DOMAIN snapshot.mods # {}

====
